---- MODULE Spec2Model ----
(***************************************************************************)
(* Import pipeline of the MongoDB JSON importer: ImportPath, ImportFile,   *)
(* ImportDirectory (one goroutine per discovered file, a buffered result   *)
(* channel and a WaitGroup), cleanDocuments, processBatches and the        *)
(* repository's InsertDocuments with its InsertMany loop.                  *)
(*                                                                         *)
(* Strings that the code takes apart (paths, file names, extensions) are   *)
(* sequences of one-character strings.  Errors are records [op, arg,       *)
(* cause]; Nil is the nil error.  Dynamically typed JSON values are tagged *)
(* records [t, v].                                                         *)
(*                                                                         *)
(* A []domain.Document is held the way Go holds it, as a slice header      *)
(* [file, lo, hi, cleaned]: the array is the one ParseJSONFile built for   *)
(* file, lo and hi delimit the slice (documents[lo:hi]) and cleaned tells  *)
(* whether cleanDocuments has run over the array.  Elems gives the         *)
(* documents a header stands for.                                          *)
(*                                                                         *)
(* Spec is the importer at work, under a context that is never done.      *)
(* LiveSpec is Spec with the scheduling of the goroutines of               *)
(* ImportDirectory.  FnSpec calls one function on its own (the JSON        *)
(* decoding of ParseJSONFile, FilePathToCollectionName, and cleanDocuments *)
(* in both sources the repository has of it) on arguments drawn from       *)
(* bounded sets.  MainSpec is the program: main connects, imports under a  *)
(* context with a deadline, and ends by returning, by log.Fatalf or by the *)
(* interrupt handler.                                                      *)
(***************************************************************************)
EXTENDS Integers, Sequences, FiniteSets, TLC

(* ------------------------------ bounds -------------------------------- *)

\* Largest number of JSON files placed in the directory tree.
MaxFiles == 2

\* Largest number of InsertMany batches a single file needs.
MaxBatches == 2

\* Largest number of members of a JSON object given to the decoder.
MaxMembers == 2

\* Largest number of elements of a JSON array given to the decoder.
MaxElems == 2

\* Longest path, in characters, built from the path alphabet.
MaxPathLen == 4

\* Largest number of documents given to cleanDocuments at once.
MaxDocs == 2

(* -------------------------- program constants ------------------------- *)

\* batchSize := 1000 inside InsertDocuments.
RepoBatchSize == 1000

\* batchSize = 1000 when NewMongoImporter is given batchSize <= 0.
DefaultBatchSize == 1000

(* ------------------------------ strings ------------------------------- *)

Slash == "/"
Dot == "."

RootDir == <<"/", "d">>
FileA == <<"/", "d", "/", "a", ".", "j", "s", "o", "n">>
FileB == <<"/", "d", "/", "b", ".", "J", "S", "O", "N">>
FileTxt == <<"/", "d", "/", "c", ".", "t", "x", "t">>
DirJson == <<"/", "d", "/", "e", ".", "j", "s", "o", "n">>
SubDir == <<"/", "d", "/", "s">>
FileSubA == <<"/", "d", "/", "s", "/", "a", ".", "j", "s", "o", "n">>
Unreadable == <<"/", "d", "/", "u">>
Missing == <<"/", "x">>

DotJson == <<".", "j", "s", "o", "n">>

\* The JSON files that may be placed in the tree, in walk (lexical) order.
JsonCandidates == <<FileA, FileB, FileSubA>>

\* The one file that may hold more than one batch of documents.
BigFile == FileA

ToLowerChar(c) ==
    CASE c = "J" -> "j"
      [] c = "S" -> "s"
      [] c = "O" -> "o"
      [] c = "N" -> "n"
      [] OTHER -> c

ToLower(s) == [i \in 1..Len(s) |-> ToLowerChar(s[i])]

HasPrefix(s, p) == Len(s) >= Len(p) /\ SubSeq(s, 1, Len(p)) = p

HasSuffix(s, x) == Len(s) >= Len(x) /\ SubSeq(s, Len(s) - Len(x) + 1, Len(s)) = x

TrimSuffix(s, x) == IF HasSuffix(s, x) THEN SubSeq(s, 1, Len(s) - Len(x)) ELSE s

\* Length of s once its trailing slashes are stripped.
StripLen(s) ==
    LET keep == {i \in 1..Len(s) : s[i] # Slash}
    IN  IF keep = {} THEN 0 ELSE CHOOSE i \in keep : \A j \in keep : j <= i

\* filepath.Base: the last element of the path.
Base(p) ==
    IF Len(p) = 0 THEN <<Dot>>
    ELSE LET n == StripLen(p)
             q == SubSeq(p, 1, n)
             sl == {i \in 1..n : q[i] = Slash}
             k == IF sl = {} THEN 0 ELSE CHOOSE i \in sl : \A j \in sl : j <= i
             r == SubSeq(q, k + 1, n)
         IN  IF Len(r) = 0 THEN <<Slash>> ELSE r

\* filepath.Ext: the suffix starting at the last dot of the last element.
Ext(p) ==
    LET sl == {i \in 1..Len(p) : p[i] = Slash}
        k == IF sl = {} THEN 0 ELSE CHOOSE i \in sl : \A j \in sl : j <= i
        dots == {i \in (k + 1)..Len(p) : p[i] = Dot}
    IN  IF dots = {} THEN <<>>
        ELSE SubSeq(p, CHOOSE i \in dots : \A j \in dots : j <= i, Len(p))

\* Variant: everything from the first dot of the file name is cut off.
FilePathToCollectionName_FirstDot(filePath) ==
    LET fileName == Base(filePath)
        dots == {i \in 1..Len(fileName) : fileName[i] = Dot}
    IN  IF dots = {} THEN fileName
        ELSE SubSeq(fileName, 1, (CHOOSE i \in dots : \A j \in dots : i <= j) - 1)

FilePathToCollectionName(filePath) ==
    LET fileName == Base(filePath)
    IN  TrimSuffix(fileName, Ext(fileName))

(* ------------------------------- errors ------------------------------- *)

Nil == [op |-> "nil"]

Err(op, arg, cause) == [op |-> op, arg |-> arg, cause |-> cause]

ErrNotExist == Err("os.ErrNotExist", <<>>, Nil)
ErrPermission == Err("os.ErrPermission", <<>>, Nil)
ErrSyntax == Err("json.SyntaxError", <<>>, Nil)
ErrStore == Err("mongo.InsertMany", <<>>, Nil)
ErrUnmarshalType == Err("json.UnmarshalTypeError", <<>>, Nil)
ErrDeadlineExceeded == Err("context.DeadlineExceeded", <<>>, Nil)
ErrCanceled == Err("context.Canceled", <<>>, Nil)

(* ------------------------------ documents ----------------------------- *)

\* A nil slice: no elements (a slice that was never appended to).
NilSlice == <<>>

Str(s) == [t |-> "string", v |-> s]
Num(n) == [t |-> "number", v |-> n]
Map(m) == [t |-> "map", v |-> m]

DateString == "2024-05-22T16:04:35.000Z"

\* The i-th document of a file.  Every document carries its position; the
\* first of each run of 500 also has an _id and a {"$date": ...} wrapper, the
\* second only the wrapper.
DocAt(i) ==
    ("n" :> Num(i))
    @@ (IF i % 500 = 1 THEN ("_id" :> Str("oid")) ELSE <<>>)
    @@ (IF i % 500 \in {1, 2}
        THEN ("created" :> Map("$date" :> Str(DateString)))
        ELSE <<>>)

DocsOf(n) == [i \in 1..n |-> DocAt(i)]

(* ---------------------------- JSON decoding --------------------------- *)

\* The content of a file as json.Unmarshal sees it: bytes that are not JSON,
\* or a JSON value.  An object is the sequence of its members as written,
\* so a key may occur more than once.
Malformed == [j |-> "malformed"]
JNull == [j |-> "null"]
JBool(b) == [j |-> "bool", v |-> b]
JNum(n) == [j |-> "number", v |-> n]
JStr(s) == [j |-> "string", v |-> s]
JArr(elems) == [j |-> "array", v |-> elems]
JObj(members) == [j |-> "object", v |-> members]
Member(k, v) == [k |-> k, v |-> v]

\* The Go values a JSON value decodes to besides Str, Num and Map.
NilAny == [t |-> "nil"]
Bool(b) == [t |-> "bool", v |-> b]
Slice(s) == [t |-> "slice", v |-> s]

\* A nil map[string]any.
NilMap == [t |-> "nilmap"]

RECURSIVE DecodeAny(_)
\* Decoding of a JSON value into an any / a map[string]any value: of the
\* members of an object with the same key the last one stays.
DecodeAny(j) ==
    CASE j.j = "null" -> NilAny
      [] j.j = "bool" -> Bool(j.v)
      [] j.j = "number" -> Num(j.v)
      [] j.j = "string" -> Str(j.v)
      [] j.j = "array" -> Slice([i \in 1..Len(j.v) |-> DecodeAny(j.v[i])])
      [] j.j = "object" ->
            Map([k \in {j.v[i].k : i \in 1..Len(j.v)} |->
                    LET at == {i \in 1..Len(j.v) : j.v[i].k = k}
                        last == CHOOSE i \in at : \A i2 \in at : i2 <= i
                    IN  DecodeAny(j.v[last].v)])

\* json.Unmarshal(fileContent, &document), document a map[string]any.
UnmarshalDocument(j) ==
    CASE j.j = "malformed" -> [val |-> NilMap, err |-> ErrSyntax]
      [] j.j = "null" -> [val |-> NilMap, err |-> Nil]
      [] j.j = "object" -> [val |-> DecodeAny(j), err |-> Nil]
      [] OTHER -> [val |-> NilMap, err |-> ErrUnmarshalType]

\* json.Unmarshal(fileContent, &documents), documents a []map[string]any:
\* null leaves the nil slice, a null element gives a nil map, an element that
\* is no object is skipped and reported when the array has been read.
UnmarshalDocuments(j) ==
    CASE j.j = "malformed" -> [val |-> NilSlice, err |-> ErrSyntax]
      [] j.j = "null" -> [val |-> NilSlice, err |-> Nil]
      [] j.j = "array" ->
            [val |-> [i \in 1..Len(j.v) |-> UnmarshalDocument(j.v[i]).val],
             err |-> IF \A i \in 1..Len(j.v) : j.v[i].j \in {"object", "null"}
                     THEN Nil ELSE ErrUnmarshalType]
      [] OTHER -> [val |-> NilSlice, err |-> ErrUnmarshalType]

\* Variant: the single object is dropped.
SingleDocument_Dropped(document) == <<>>

\* []map[string]any{document}.
SingleDocument(document) == <<document>>

\* ParseJSONFile once the file has been read: the array attempt, then the
\* object attempt.  unmarshals lists the attempts made.
ParseJSON(filePath, fileContent) ==
    LET asArray == UnmarshalDocuments(fileContent)
        asObject == UnmarshalDocument(fileContent)
    IN  IF asArray.err = Nil
        THEN [docs |-> asArray.val, err |-> Nil, unmarshals |-> <<"documents">>]
        ELSE IF asObject.err # Nil
        THEN [docs |-> NilSlice,
              err |-> Err("invalid JSON format in file", filePath, asObject.err),
              unmarshals |-> <<"documents", "document">>]
        ELSE [docs |-> SingleDocument(asObject.val), err |-> Nil,
              unmarshals |-> <<"documents", "document">>]

(* ----------------------------- file system ---------------------------- *)

\* Every entry the tree may hold, in walk (lexical) order.  err marks an
\* entry whose Stat fails.
AllEntries ==
    << [path |-> RootDir, isDir |-> TRUE, err |-> FALSE],
       [path |-> FileA, isDir |-> FALSE, err |-> FALSE],
       [path |-> FileB, isDir |-> FALSE, err |-> FALSE],
       [path |-> FileTxt, isDir |-> FALSE, err |-> FALSE],
       [path |-> DirJson, isDir |-> TRUE, err |-> FALSE],
       [path |-> SubDir, isDir |-> TRUE, err |-> FALSE],
       [path |-> FileSubA, isDir |-> FALSE, err |-> FALSE],
       [path |-> Unreadable, isDir |-> FALSE, err |-> TRUE] >>

\* Entries that are in every tree; the others are there when chosen.
FixedPaths == {RootDir, FileTxt, DirJson, SubDir}
OptionalPaths == {FileA, FileB, FileSubA, Unreadable}
JsonPaths == {JsonCandidates[i] : i \in 1..Len(JsonCandidates)}

VARIABLES
    fs,         \* the file system: [present, content]
    storePlan,  \* per file, the InsertMany call that the store rejects (0: none)
    m,          \* the MongoImporter: [batchSize, removeIDField]
    path,       \* the argument of ImportPath
    pc,         \* position of the calling thread
    jsonFiles,  \* ImportDirectory: the discovered files
    spawned,    \* ImportDirectory: goroutines launched so far
    wg,         \* ImportDirectory: the WaitGroup counter
    resultChan, \* ImportDirectory: [cap, buf, closed]
    results,    \* ImportDirectory: the collected results
    frame,      \* one ImportFile activation per thread (0: the caller)
    store,      \* the database: collection name -> the batches inserted
    log,        \* per thread, the calls made to the collaborators
    ret,        \* what ImportPath returned: [type, val, err]
    probe,      \* one call of a function on its own: [fn, in, out]
    ctx,        \* the context handed to the repository: its Err()
    proc        \* the process running main: [pc, repo, out, exit]

vars == <<fs, storePlan, m, path, pc, jsonFiles, spawned, wg, resultChan,
          results, frame, store, log, ret, probe, ctx, proc>>

\* No function is called on its own in a run of the importer.
NoProbe == [fn |-> "none"]

\* The importer is driven by a caller other than main, as the tests do,
\* under a context that is never cancelled (context.Background()).
NoProcess == [pc |-> "none", repo |-> "none", out |-> <<>>, exit |-> -1]
Background == "live"

Threads == 0..Len(JsonCandidates)

IsPresent(p) == p \in FixedPaths \/ p \in fs.present

\* MockFileSystem.Stat / os.Stat.
Stat(name) ==
    LET hit == {i \in 1..Len(AllEntries) :
                    AllEntries[i].path = name /\ IsPresent(name)}
    IN  IF hit = {} THEN [info |-> Nil, err |-> ErrNotExist]
        ELSE LET e == AllEntries[CHOOSE i \in hit : TRUE]
             IN  IF e.err THEN [info |-> Nil, err |-> ErrPermission]
                 ELSE [info |-> [isDir |-> e.isDir], err |-> Nil]

IsDirectory(p) ==
    LET st == Stat(p)
    IN  IF st.err # Nil
        THEN [isDir |-> FALSE, err |-> Err("error checking path", p, st.err)]
        ELSE [isDir |-> st.info.isDir, err |-> Nil]

\* The entries Walk visits below (and including) root, in order.
UnderRoot(root) ==
    SelectSeq(AllEntries,
              LAMBDA e : /\ IsPresent(e.path)
                         /\ \/ e.path = root
                            \/ HasPrefix(e.path, root \o <<Slash>>))

\* Variant: the extension is compared as it is written.
IsJSONFile_CaseSensitive(info, p) == ~info.isDir /\ Ext(p) = DotJson

\* The test of the callback: a file with the extension .json, in any case.
IsJSONFile(info, p) == ~info.isDir /\ ToLower(Ext(p)) = DotJson

\* Walk with the callback of FindJSONFiles: the first entry that cannot be
\* examined ends the walk with its error.
RECURSIVE WalkJSON(_, _, _)
WalkJSON(entries, k, acc) ==
    IF k > Len(entries) THEN [files |-> acc, err |-> Nil]
    ELSE LET e == entries[k]
             st == Stat(e.path)
         IN  IF st.err # Nil THEN [files |-> acc, err |-> st.err]
             ELSE IF IsJSONFile(st.info, e.path)
                  THEN WalkJSON(entries, k + 1, Append(acc, e.path))
                  ELSE WalkJSON(entries, k + 1, acc)

FindJSONFiles(dirPath) ==
    LET entries == UnderRoot(dirPath)
        w == IF Len(entries) = 0
             THEN [files |-> <<>>, err |-> Stat(dirPath).err]
             ELSE WalkJSON(entries, 1, <<>>)
    IN  IF w.err # Nil
        THEN [files |-> NilSlice,
              err |-> Err("error finding JSON files in directory", dirPath, w.err)]
        ELSE [files |-> w.files, err |-> Nil]

\* ReadFile followed by the two json.Unmarshal attempts; the outcome of
\* decoding is the file's content kind.
ParseError(filePath) ==
    IF ~IsPresent(filePath) \/ filePath \notin JsonPaths
    THEN Err("error reading file", filePath, ErrNotExist)
    ELSE IF fs.content[filePath].kind = "unreadable"
    THEN Err("error reading file", filePath, ErrPermission)
    ELSE IF fs.content[filePath].kind = "invalid"
    THEN Err("invalid JSON format in file", filePath, ErrSyntax)
    ELSE Nil

ParseJSONFile(filePath) ==
    IF ParseError(filePath) # Nil
    THEN [docs |-> NilSlice, err |-> ParseError(filePath)]
    ELSE [docs |-> DocsOf(fs.content[filePath].n), err |-> Nil]

(* ------------------------------ importer ------------------------------ *)


NewMongoImporterWithOptions(batchSize, removeIDField) ==
    [batchSize |-> IF batchSize <= 0 THEN DefaultBatchSize ELSE batchSize,
     removeIDField |-> removeIDField]

\* The constructor main uses: removeIDField keeps its zero value.
NewMongoImporter(batchSize) ==
    [batchSize |-> IF batchSize <= 0 THEN DefaultBatchSize ELSE batchSize,
     removeIDField |-> FALSE]

\* The importer main builds when MONGODB_BATCH_SIZE is not set.
MainImporter == NewMongoImporter(DefaultBatchSize)

\* The importers tried: the one main builds when MONGODB_BATCH_SIZE is not
\* set, and one built with a batch size of 100 and _id removal switched on.
Importers == {NewMongoImporter(0), NewMongoImporterWithOptions(100, TRUE)}

NilResult == [nil |-> TRUE]

NewResult(filePath) ==
    [FileName |-> Base(filePath),
     CollectionName |-> FilePathToCollectionName(filePath),
     InsertedCount |-> 0,
     Duration |-> 0,
     Error |-> Nil]

\* The nil slice of documents.
NoDocuments == [file |-> <<>>, lo |-> 0, hi |-> 0, cleaned |-> FALSE]

IdleFrame ==
    [pc |-> "idle", filePath |-> <<>>, result |-> NilResult, err |-> Nil,
     documents |-> NoDocuments, i |-> 0, totalInserted |-> 0]

\* Variant: the _id stays.
CleanDocument_KeepsID(d) ==
    [k \in DOMAIN d |->
        IF /\ d[k].t = "map"
           /\ "$date" \in DOMAIN d[k].v
           /\ d[k].v["$date"].t = "string"
        THEN d[k].v["$date"]
        ELSE d[k]]

CleanDocument(d) ==
    LET kept == DOMAIN d \ {"_id"}
    IN  [k \in kept |->
            IF /\ d[k].t = "map"
               /\ "$date" \in DOMAIN d[k].v
               /\ d[k].v["$date"].t = "string"
            THEN d[k].v["$date"]
            ELSE d[k]]

\* Variant: the documents are cleaned whatever removeIDField says.
cleanDocuments_Always(documents) ==
    [i \in 1..Len(documents) |-> CleanDocument(documents[i])]

cleanDocuments(documents) ==
    IF ~m.removeIDField THEN documents
    ELSE [i \in 1..Len(documents) |-> CleanDocument(documents[i])]

(* The other importer source of the repository (the one that declares      *)
(* NewMongoImporterWithOptions) cleans with processDocumentDates, which    *)
(* turns dates into time.Time values.  A time.Time is its instant in Unix   *)
(* seconds; time.Parse is given by the strings it accepts for a layout.    *)

Time(unix) == [t |-> "time", v |-> unix]
ErrTimeParse == Err("time.ParseError", <<>>, Nil)

DateNoMillis == "2024-05-22T16:04:35Z"
DateOffset == "2024-05-23T01:04:35+09:00"
DateOnly == "2024-05-22"
DateOutOfRange == "2024-13-45T25:61:61Z"
NotADate == "not a date"

\* The instant a timestamp denotes.
Instant(value) ==
    CASE value \in {DateString, DateNoMillis, DateOffset} -> 1716393875
      [] value = DateOnly -> 1716336000

RFC3339 == "2006-01-02T15:04:05Z07:00"
RFC3339Nano == "2006-01-02T15:04:05.999999999Z07:00"
LayoutMillisZ == "2006-01-02T15:04:05.000Z"
LayoutDate == "2006-01-02"

\* The strings time.Parse accepts for a layout: a fraction of a second may
\* follow the seconds whatever the layout says.
Accepted(layout) ==
    CASE layout \in {RFC3339, RFC3339Nano} -> {DateString, DateNoMillis, DateOffset}
      [] layout = LayoutMillisZ -> {DateString}
      [] layout = LayoutDate -> {DateOnly}

TimeParse(layout, value) ==
    IF value \in Accepted(layout)
    THEN [t |-> Time(Instant(value)), err |-> Nil]
    ELSE [t |-> Time(0), err |-> ErrTimeParse]

RECURSIVE ParseWith(_, _)
\* The loop of parseDateTime over the formats that are left.
ParseWith(formats, dateStr) ==
    IF Len(formats) = 0
    THEN [t |-> Time(0), err |-> Err("unable to parse date", dateStr, Nil)]
    ELSE LET r == TimeParse(Head(formats), dateStr)
         IN  IF r.err = Nil THEN r ELSE ParseWith(Tail(formats), dateStr)

parseDateTime(dateStr) ==
    ParseWith(<<RFC3339, RFC3339Nano, LayoutMillisZ, LayoutDate>>, dateStr)

\* The strings the regular expression of isDateString matches.
isDateString(str) ==
    str \in {DateString, DateNoMillis, DateOffset, DateOutOfRange}

RECURSIVE processDocumentDates(_)
processDocumentDates(doc) ==
    [key \in DOMAIN doc |->
        LET value == doc[key]
        IN  IF value.t = "map"
            THEN IF "$date" \in DOMAIN value.v
                 THEN IF value.v["$date"].t = "string"
                      THEN LET r == parseDateTime(value.v["$date"].v)
                           IN  IF r.err = Nil THEN r.t ELSE value
                      ELSE value
                 ELSE Map(processDocumentDates(value.v))
            ELSE IF value.t = "string"
            THEN IF isDateString(value.v)
                 THEN LET r == parseDateTime(value.v)
                      IN  IF r.err = Nil THEN r.t ELSE value
                 ELSE value
            ELSE value]

\* cleanDocuments as that source has it.
cleanDocumentsPart005(documents) ==
    IF ~m.removeIDField THEN documents
    ELSE [i \in 1..Len(documents) |->
            LET d == documents[i]
            IN  processDocumentDates([k \in DOMAIN d \ {"_id"} |-> d[k]])]

\* The slice ParseJSONFile returns for a file: the whole array.
SliceOf(filePath, docs) ==
    [file |-> filePath, lo |-> 0, hi |-> Len(docs), cleaned |-> FALSE]

\* len(s).
SliceLen(s) == s.hi - s.lo

\* s[lo:hi].
Reslice(s, lo, hi) == [s EXCEPT !.lo = s.lo + lo, !.hi = s.lo + hi]

\* The documents of a slice.
Elems(s) ==
    IF s.hi = s.lo THEN <<>>
    ELSE LET parsed == ParseJSONFile(s.file).docs
             array == IF s.cleaned THEN cleanDocuments(parsed) ELSE parsed
         IN  SubSeq(array, s.lo + 1, s.hi)

RECURSIVE TotalLen(_)
\* The number of documents in a sequence of slices.
TotalLen(ss) == IF Len(ss) = 0 THEN 0 ELSE SliceLen(Head(ss)) + TotalLen(Tail(ss))

Min(a, b) == IF a < b THEN a ELSE b

\* totalBatches in InsertDocuments (rounded-up division).
TotalBatches(n) == (n + RepoBatchSize - 1) \div RepoBatchSize

(* ------------------------------- worlds ------------------------------- *)

DocCounts(p) ==
    {0, 1} \cup (IF p = BigFile
                 THEN {(b - 1) * RepoBatchSize + 1 : b \in 2..MaxBatches}
                 ELSE {})

AbsentFile == [kind |-> "unreadable", n |-> 0, failAt |-> 0]

\* What a present file may hold and which of its InsertMany calls fails.
FileChoices(p) ==
    {[kind |-> "unreadable", n |-> 0, failAt |-> 0],
     [kind |-> "invalid", n |-> 0, failAt |-> 0]}
    \cup {[kind |-> "docs", n |-> n, failAt |-> f] :
            n \in DocCounts(p), f \in 0..MaxBatches}

ChoicesFor(p, present) ==
    IF p \in present
    THEN {c \in FileChoices(p) : c.failAt <= TotalBatches(c.n)}
    ELSE {AbsentFile}

Trees(p) ==
    IF p \in JsonPaths THEN {{p}}
    ELSE IF p = Missing THEN {{}}
    ELSE {t \in SUBSET OptionalPaths :
            /\ Cardinality(t \cap JsonPaths) <= MaxFiles
            /\ Unreadable \in t => t \cap JsonPaths \subseteq {FileB}}

CollectionNames == {FilePathToCollectionName(p) : p \in JsonPaths}

Init ==
    /\ m \in Importers
    /\ path \in {RootDir, Missing} \cup JsonPaths
    /\ \E present \in Trees(path) :
       \E ca \in ChoicesFor(FileA, present),
          cb \in ChoicesFor(FileB, present),
          cs \in ChoicesFor(FileSubA, present) :
          LET c == (FileA :> ca) @@ (FileB :> cb) @@ (FileSubA :> cs)
          IN  /\ fs = [present |-> present,
                       content |-> [q \in JsonPaths |->
                                      [kind |-> c[q].kind, n |-> c[q].n]]]
              /\ storePlan = [q \in JsonPaths |-> c[q].failAt]
    /\ pc = "ImportPath"
    /\ jsonFiles = <<>>
    /\ spawned = 0
    /\ wg = 0
    /\ resultChan = [cap |-> 0, buf |-> <<>>, closed |-> FALSE]
    /\ results = <<>>
    /\ frame = [t \in Threads |-> IdleFrame]
    /\ store = [c \in CollectionNames |-> <<>>]
    /\ log = [t \in Threads |-> <<>>]
    /\ ret = [type |-> "none", val |-> NilSlice, err |-> Nil]
    /\ probe = NoProbe
    /\ ctx = Background
    /\ proc = NoProcess

(* ------------------------------- actions ------------------------------ *)

Logged(t, call) == [log EXCEPT ![t] = Append(@, call)]

\* Variant: the classification error is ignored.
ClassifyFailed_Ignored(c) == FALSE

\* ImportPath: if err != nil after IsDirectory.
ClassifyFailed(c) == c.err # Nil

\* Variant: the check for an empty discovery is missing.
NoFilesFound_Unchecked(files) == FALSE

\* ImportDirectory: if len(jsonFiles) == 0.
NoFilesFound(files) == Len(files) = 0

\* Variant: the goroutines share the loop variable and all read its last value.
SpawnedFile_LoopVariable(k) == jsonFiles[Len(jsonFiles)]

\* The file handed to the k-th goroutine: go func(filePath string) {...}(file).
SpawnedFile(k) == jsonFiles[k]

\* Variant: the unwrapped cause is returned instead of the stored error.
ReturnedError_Cause(result, cause) == cause

\* ImportFile's failure returns: return result, result.Error.
ReturnedError(result, cause) == result.Error

\* Variant: the documents accepted before the failure are reported.
FailedImport_Partial(result, totalInserted, err) ==
    [result EXCEPT !.InsertedCount = totalInserted,
                   !.Error =
        Err("error importing documents to collection", result.CollectionName, err)]

\* ImportFile's result when processBatches fails: the count stays zero.
FailedImport(result, totalInserted, err) ==
    [result EXCEPT !.Error =
        Err("error importing documents to collection", result.CollectionName, err)]

\* Variant: the count is read off the size of the collection.
CountInserted_CollectionSize(totalInserted, batch, collectionName) ==
    TotalLen(store[collectionName]) + SliceLen(batch)

\* InsertDocuments: totalInserted += len(result.InsertedIDs).
CountInserted(totalInserted, batch, collectionName) ==
    totalInserted + SliceLen(batch)

\* Variant: a run with failures hands back no results.
ReturnedResults_NoneOnFailure(rs, importErrors) ==
    IF Len(importErrors) > 0 THEN NilSlice ELSE rs

\* ImportDirectory: the collection handed back with the aggregate error.
ReturnedResults(rs, importErrors) == rs

RepositoryError(collectionName, batchIndex, totalBatches, cause) ==
    [op |-> "RepositoryError", arg |-> collectionName, batch |-> batchIndex,
     total |-> totalBatches, cause |-> cause]

\* ImportPath: classify the path, then hand over to ImportDirectory or
\* ImportFile.
ImportPath ==
    /\ pc = "ImportPath"
    /\ LET c == IsDirectory(path)
       IN  /\ log' = Logged(0, [op |-> "IsDirectory", arg |-> path])
           /\ IF ClassifyFailed(c)
              THEN /\ ret' = [type |-> "nil", val |-> NilSlice,
                              err |-> Err("error checking path", path, c.err)]
                   /\ pc' = "done"
                   /\ frame' = frame
              ELSE IF c.isDir
              THEN /\ pc' = "ImportDirectory"
                   /\ UNCHANGED <<ret, frame>>
              ELSE /\ pc' = "ImportFile"
                   /\ frame' = [frame EXCEPT ![0] =
                                  [IdleFrame EXCEPT !.pc = "ImportFile",
                                                    !.filePath = path]]
                   /\ ret' = ret
    /\ UNCHANGED <<ctx, proc, probe, fs, storePlan, m, path, jsonFiles, spawned, wg, resultChan,
                   results, store>>

\* Variant: the result channel is unbuffered.
ChannelCapacity_Unbuffered(files) == 0

\* make(chan *domain.ImportResult, len(jsonFiles)).
ChannelCapacity(files) == Len(files)

\* ImportDirectory up to the creation of the result channel.
ImportDirectory ==
    /\ pc = "ImportDirectory"
    /\ LET f == FindJSONFiles(path)
       IN  /\ log' = Logged(0, [op |-> "FindJSONFiles", arg |-> path])
           /\ IF f.err # Nil
              THEN /\ ret' = [type |-> "[]*ImportResult", val |-> NilSlice,
                              err |-> Err("error finding JSON files in directory",
                                          path, f.err)]
                   /\ pc' = "done"
                   /\ UNCHANGED <<jsonFiles, resultChan>>
              ELSE IF NoFilesFound(f.files)
              THEN /\ ret' = [type |-> "[]*ImportResult", val |-> NilSlice,
                              err |-> Err("no JSON files found in directory",
                                          path, Nil)]
                   /\ pc' = "done"
                   /\ UNCHANGED <<jsonFiles, resultChan>>
              ELSE /\ jsonFiles' = f.files
                   /\ resultChan' = [cap |-> ChannelCapacity(f.files), buf |-> <<>>,
                                     closed |-> FALSE]
                   /\ pc' = IF Len(f.files) = 0 THEN "wait" ELSE "spawn"
                   /\ ret' = ret
    /\ UNCHANGED <<ctx, proc, probe, fs, storePlan, m, path, spawned, wg, results, frame, store>>

\* One turn of the launch loop: wg.Add(1) and the go statement.
Spawn ==
    /\ pc = "spawn"
    /\ spawned < Len(jsonFiles)
    /\ wg' = wg + 1
    /\ spawned' = spawned + 1
    /\ frame' = [frame EXCEPT ![spawned + 1] =
                    [IdleFrame EXCEPT !.pc = "ImportFile",
                                      !.filePath = SpawnedFile(spawned + 1)]]
    /\ pc' = IF spawned + 1 = Len(jsonFiles) THEN "wait" ELSE "spawn"
    /\ UNCHANGED <<ctx, proc, probe, fs, storePlan, m, path, jsonFiles, resultChan, results,
                   store, log, ret>>

\* Variant: the error of ParseJSONFile is ignored.
ParseFailed_Ignored(err) == FALSE

\* ImportFile: if err != nil after ParseJSONFile.
ParseFailed(err) == err # Nil

\* ImportFile from its entry through ParseJSONFile.
ImportFileParse(t) ==
    /\ frame[t].pc = "ImportFile"
    /\ LET filePath == frame[t].filePath
           result == NewResult(filePath)
           p == ParseJSONFile(filePath)
       IN  /\ log' = Logged(t, [op |-> "ParseJSONFile", arg |-> filePath])
           /\ IF ParseFailed(p.err)
              THEN LET failed == [result EXCEPT !.Error =
                                     Err("error parsing file", filePath, p.err)]
                   IN  frame' = [frame EXCEPT ![t] =
                           [@ EXCEPT !.pc = "return",
                                     !.result = failed,
                                     !.err = ReturnedError(failed, p.err)]]
              ELSE frame' = [frame EXCEPT ![t] =
                       [@ EXCEPT !.pc = "cleanDocuments",
                                 !.result = result,
                                 !.documents = SliceOf(filePath, p.docs)]]
    /\ UNCHANGED <<ctx, proc, probe, fs, storePlan, m, path, pc, jsonFiles, spawned, wg,
                   resultChan, results, store, ret>>

\* Variant: InsertDocuments does not look at the length of the slice.
NothingToInsert_Unchecked(documents) == FALSE

\* if len(documents) == 0, at the entry of InsertDocuments.
NothingToInsert(documents) == SliceLen(documents) = 0

\* ImportFile: cleanDocuments, then processBatches enters InsertDocuments,
\* which returns at once for an empty slice.
CleanDocuments(t) ==
    /\ frame[t].pc = "cleanDocuments"
    /\ LET domainDocs == [frame[t].documents EXCEPT !.cleaned = TRUE]
       IN  IF NothingToInsert(domainDocs)
           THEN frame' = [frame EXCEPT ![t] =
                    [@ EXCEPT !.pc = "return",
                              !.documents = NoDocuments,
                              !.result = [@ EXCEPT !.InsertedCount = 0,
                                                   !.Duration = 1]]]
           ELSE frame' = [frame EXCEPT ![t] =
                    [@ EXCEPT !.pc = "InsertMany",
                              !.documents = domainDocs,
                              !.i = 0,
                              !.totalInserted = 0]]
    /\ UNCHANGED <<ctx, proc, probe, fs, storePlan, m, path, pc, jsonFiles, spawned, wg,
                   resultChan, results, store, log, ret>>

\* Variant: the batches of the file inserted so far are taken back.
StoreAfterRejection_RolledBack(stored, filePath) ==
    SelectSeq(stored, LAMBDA b : b.file # filePath)

\* The collection after InsertMany returned an error: InsertDocuments
\* returns without touching what earlier batches put there.
StoreAfterRejection(stored, filePath) == stored

\* Variant: the write replaces what the collection held.
Inserted_Overwritten(stored, batch) == <<batch>>

\* A successful InsertMany adds the batch to the collection.
Inserted(stored, batch) == Append(stored, batch)

\* Variant: the batch loop goes on after an error.
ReturnsOnError_GoesOn(err) == FALSE

\* InsertDocuments: if err != nil { return nil, ... } inside the batch loop.
ReturnsOnError(err) == err # Nil

\* Variant: the driver ignores the context.
InsertManyError_ContextIgnored(filePath, batchIndex) ==
    IF storePlan[filePath] = batchIndex THEN ErrStore ELSE Nil

\* collection.InsertMany(ctx, batch): the driver gives up with the context's
\* error once the context is done, and the store rejects the planned call.
InsertManyError(filePath, batchIndex) ==
    CASE ctx = "DeadlineExceeded" -> ErrDeadlineExceeded
      [] ctx = "Canceled" -> ErrCanceled
      [] storePlan[filePath] = batchIndex -> ErrStore
      [] OTHER -> Nil

\* One turn of the batch loop of InsertDocuments, and what processBatches
\* and ImportFile do with its outcome when the loop ends.
InsertMany(t) ==
    /\ frame[t].pc = "InsertMany"
    /\ LET f == frame[t]
           documents == f.documents
           collectionName == f.result.CollectionName
           end == Min(f.i + RepoBatchSize, SliceLen(documents))
           batch == Reslice(documents, f.i, end)
           batchIndex == (f.i \div RepoBatchSize) + 1
           cause == InsertManyError(f.filePath, batchIndex)
           rejected == cause # Nil
       IN  /\ log' = Logged(t, [op |-> "InsertMany", arg |-> collectionName,
                                docs |-> batch, ok |-> ~rejected, ctx |-> ctx])
           /\ IF ReturnsOnError(cause)
              THEN LET err == RepositoryError(collectionName, batchIndex,
                                       TotalBatches(SliceLen(documents)), cause)
                       failed == FailedImport(f.result, f.totalInserted, err)
                   IN  /\ store' = [store EXCEPT ![collectionName] =
                                        StoreAfterRejection(@, f.filePath)]
                       /\ frame' = [frame EXCEPT ![t] =
                              [@ EXCEPT !.pc = "return",
                                        !.documents = NoDocuments,
                                        !.result = failed,
                                        !.err = ReturnedError(failed, err)]]
              ELSE /\ store' = [store EXCEPT ![collectionName] = Inserted(@, batch)]
                   /\ IF f.i + RepoBatchSize < SliceLen(documents)
                      THEN frame' = [frame EXCEPT ![t] =
                               [@ EXCEPT !.i = f.i + RepoBatchSize,
                                         !.totalInserted =
                                             CountInserted(@, batch, collectionName)]]
                      ELSE frame' = [frame EXCEPT ![t] =
                               [@ EXCEPT !.pc = "return",
                                         !.documents = NoDocuments,
                                         !.i = f.i + RepoBatchSize,
                                         !.totalInserted =
                                             CountInserted(@, batch, collectionName),
                                         !.result = [@ EXCEPT
                                             !.InsertedCount =
                                                 CountInserted(f.totalInserted,
                                                     batch, collectionName),
                                             !.Duration = 1]]]
    /\ UNCHANGED <<ctx, proc, probe, fs, storePlan, m, path, pc, jsonFiles, spawned, wg,
                   resultChan, results, ret>>

\* ImportFile returns to ImportPath, which returns its pair unchanged.
ImportFileReturn ==
    /\ pc = "ImportFile"
    /\ frame[0].pc = "return"
    /\ ret' = [type |-> "*ImportResult", val |-> frame[0].result,
               err |-> frame[0].err]
    /\ frame' = [frame EXCEPT ![0].pc = "exit"]
    /\ pc' = "done"
    /\ UNCHANGED <<ctx, proc, probe, fs, storePlan, m, path, jsonFiles, spawned, wg, resultChan,
                   results, store, log>>

\* The goroutine drops ImportFile's error and sends the result.
Send(t) ==
    /\ t >= 1
    /\ frame[t].pc = "return"
    /\ ~resultChan.closed
    /\ Len(resultChan.buf) < resultChan.cap
    /\ resultChan' = [resultChan EXCEPT !.buf = Append(@, frame[t].result)]
    /\ frame' = [frame EXCEPT ![t].pc = "wgDone"]
    /\ UNCHANGED <<ctx, proc, probe, fs, storePlan, m, path, pc, jsonFiles, spawned, wg,
                   results, store, log, ret>>

\* The deferred wg.Done().
WgDone(t) ==
    /\ frame[t].pc = "wgDone"
    /\ wg' = wg - 1
    /\ frame' = [frame EXCEPT ![t].pc = "exit"]
    /\ UNCHANGED <<ctx, proc, probe, fs, storePlan, m, path, pc, jsonFiles, spawned, resultChan,
                   results, store, log, ret>>

\* wg.Wait() returns and the channel is closed.
Wait ==
    /\ pc = "wait"
    /\ wg = 0
    /\ resultChan' = [resultChan EXCEPT !.closed = TRUE]
    /\ pc' = "collect"
    /\ UNCHANGED <<ctx, proc, probe, fs, storePlan, m, path, jsonFiles, spawned, wg, results,
                   frame, store, log, ret>>

ImportErrors(rs) == SelectSeq(rs, LAMBDA r : r.Error # Nil)

\* Variant: the two numbers of the message are swapped.
AggregateError_Swapped(k, n) ==
    [op |-> "files failed to import", failed |-> n, outOf |-> k]

\* fmt.Errorf("%d out of %d files failed to import", ...).
AggregateError(k, n) ==
    [op |-> "files failed to import", failed |-> k, outOf |-> n]

\* Drain the closed channel, count the failures and return.
Collect ==
    /\ pc = "collect"
    /\ LET rs == resultChan.buf
           importErrors == ImportErrors(rs)
       IN  /\ results' = ReturnedResults(rs, importErrors)
           /\ resultChan' = [resultChan EXCEPT !.buf = <<>>]
           /\ ret' = [type |-> "[]*ImportResult",
                      val |-> ReturnedResults(rs, importErrors),
                      err |-> IF Len(importErrors) > 0
                              THEN AggregateError(Len(importErrors),
                                                  Len(jsonFiles))
                              ELSE Nil]
    /\ pc' = "done"
    /\ UNCHANGED <<ctx, proc, probe, fs, storePlan, m, path, jsonFiles, spawned, wg, frame,
                   store, log>>

Next ==
    \/ ImportPath
    \/ ImportDirectory
    \/ Spawn
    \/ \E t \in Threads : ImportFileParse(t)
    \/ \E t \in Threads : CleanDocuments(t)
    \/ \E t \in Threads : InsertMany(t)
    \/ ImportFileReturn
    \/ \E t \in Threads : Send(t)
    \/ \E t \in Threads : WgDone(t)
    \/ Wait
    \/ Collect

Spec == Init /\ [][Next]_vars

\* The Go scheduler runs every goroutine that is able to run: a task that
\* has returned from ImportFile gets to send and to call wg.Done, and the
\* caller gets to return from wg.Wait and to drain the channel.
LiveSpec ==
    /\ Spec
    /\ \A t \in Threads : WF_vars(Send(t)) /\ WF_vars(WgDone(t))
    /\ WF_vars(Wait)
    /\ WF_vars(Collect)

(* -------------------- functions called on their own ------------------- *)
(* A second specification: one call of one function.  The initial state   *)
(* draws the function and its argument, the action of the function        *)
(* applies it; the importer itself stays where it was built.               *)

Pending == [done |-> FALSE]
Done(v) == [done |-> TRUE, v |-> v]

\* The sequences over S of length at most n.
SeqsUpTo(S, n) == UNION {[1..k -> S] : k \in 0..n}

\* File contents given to ParseJSON.
JScalars == {JNull, JBool(TRUE), JNum(1), JStr("x")}
Members == {Member(k, v) : k \in {"a", "_id"}, v \in {JNum(1), JStr("x"), JNull}}
JObjects == {JObj(ms) : ms \in SeqsUpTo(Members, MaxMembers)}
ArrayElems ==
    {JObj(<<>>), JObj(<<Member("a", JNum(1))>>),
     JObj(<<Member("a", JNum(1)), Member("a", JStr("x"))>>),
     JNull, JNum(1), JArr(<<>>)}
JArrays == {JArr(es) : es \in SeqsUpTo(ArrayElems, MaxElems)}
Contents == {Malformed} \cup JScalars \cup JObjects \cup JArrays

\* Paths given to FilePathToCollectionName: the paths of the tests and
\* every string over a small alphabet.
UsersJson == <<"u", "s", "e", "r", "s", ".", "j", "s", "o", "n">>
OrderItemsJson ==
    <<"/", "d", "a", "t", "a", "/", "o", "r", "d", "e", "r", ".", "i", "t", "e",
      "m", "s", ".", "j", "s", "o", "n">>
Metadata == <<"m", "e", "t", "a", "d", "a", "t", "a">>
PathChars == {Slash, Dot, "a", "b"}
Paths ==
    {UsersJson, OrderItemsJson, Metadata} \cup SeqsUpTo(PathChars, MaxPathLen)

\* Documents given to cleanDocuments: an optional _id, an optional name and
\* an optional field at holding a plain value, a timestamp string, a $date
\* wrapper (parsable, date only, unparsable, not a string) or another
\* mapping (an $oid, a nested _id, a nested wrapper).
Absent == [t |-> "absent"]
Field(k, choice) == IF choice = Absent THEN <<>> ELSE k :> choice
IdValues == {Map("$oid" :> Str("oid")), Str("oid")}
AtValues ==
    {Num(1), Str("x"), Str(DateString), Str(DateOutOfRange),
     Map("$date" :> Str(DateString)),
     Map("$date" :> Str(DateOnly)),
     Map("$date" :> Str(NotADate)),
     Map("$date" :> Num(1)),
     Map("$oid" :> Str("oid")),
     Map("_id" :> Num(1)),
     Map("in" :> Map("$date" :> Str(DateOffset)))}
ProbeDocs ==
    {Field("_id", id) @@ Field("name", name) @@ Field("at", at) :
        id \in IdValues \cup {Absent},
        name \in {Str("x"), Absent},
        at \in AtValues \cup {Absent}}
PairDocs ==
    {("_id" :> Str("oid")) @@ ("at" :> Map("$date" :> Str(DateString))),
     ("name" :> Str("x")) @@ ("at" :> Map("$date" :> Str(NotADate))),
     ("at" :> Map("_id" :> Num(1)))}
ProbeDocLists == {<<d>> : d \in ProbeDocs} \cup SeqsUpTo(PairDocs, MaxDocs)

\* The importer has been built and ImportPath has not been called.
Built ==
    /\ path = Missing
    /\ fs = [present |-> {},
             content |-> [q \in JsonPaths |-> [kind |-> "unreadable", n |-> 0]]]
    /\ storePlan = [q \in JsonPaths |-> 0]
    /\ pc = "ImportPath"
    /\ jsonFiles = <<>>
    /\ spawned = 0
    /\ wg = 0
    /\ resultChan = [cap |-> 0, buf |-> <<>>, closed |-> FALSE]
    /\ results = <<>>
    /\ frame = [t \in Threads |-> IdleFrame]
    /\ store = [c \in CollectionNames |-> <<>>]
    /\ log = [t \in Threads |-> <<>>]
    /\ ret = [type |-> "none", val |-> NilSlice, err |-> Nil]
    /\ ctx = Background
    /\ proc = NoProcess

InitFn ==
    /\ Built
    /\ \/ /\ m = NewMongoImporter(0)
          /\ \E c \in Contents :
                probe = [fn |-> "ParseJSON", in |-> c, out |-> Pending]
       \/ /\ m = NewMongoImporter(0)
          /\ \E p \in Paths :
                probe = [fn |-> "FilePathToCollectionName", in |-> p,
                         out |-> Pending]
       \/ /\ m \in {NewMongoImporter(0), NewMongoImporterWithOptions(0, TRUE)}
          /\ \E ds \in ProbeDocLists, fn \in {"cleanDocuments",
                                             "cleanDocumentsPart005"} :
                probe = [fn |-> fn, in |-> ds, out |-> Pending]

importer == <<fs, storePlan, m, path, pc, jsonFiles, spawned, wg, resultChan,
              results, frame, store, log, ret, ctx, proc>>

CallParseJSON ==
    /\ probe.fn = "ParseJSON"
    /\ ~probe.out.done
    /\ probe' = [probe EXCEPT !.out = Done(ParseJSON(FileA, probe.in))]
    /\ UNCHANGED importer

CallFilePathToCollectionName ==
    /\ probe.fn = "FilePathToCollectionName"
    /\ ~probe.out.done
    /\ probe' = [probe EXCEPT !.out = Done(FilePathToCollectionName(probe.in))]
    /\ UNCHANGED importer

CallCleanDocuments ==
    /\ probe.fn = "cleanDocuments"
    /\ ~probe.out.done
    /\ probe' = [probe EXCEPT !.out = Done(cleanDocuments(probe.in))]
    /\ UNCHANGED importer

CallCleanDocumentsPart005 ==
    /\ probe.fn = "cleanDocumentsPart005"
    /\ ~probe.out.done
    /\ probe' = [probe EXCEPT !.out = Done(cleanDocumentsPart005(probe.in))]
    /\ UNCHANGED importer

NextFn ==
    \/ CallParseJSON
    \/ CallFilePathToCollectionName
    \/ CallCleanDocuments
    \/ CallCleanDocumentsPart005

FnSpec == InitFn /\ [][NextFn]_vars

(* ------------------------------ the program --------------------------- *)

\* A third specification, MainSpec, runs main: it connects to the store
\* under a context with a deadline, calls ImportPath, and ends by returning,
\* by log.Fatalf or by the interrupt handler's os.Exit.

\* What an earlier, successful import of a file left in its collection.
PriorImport(p) ==
    LET n == fs.content[p].n
        whole == [file |-> p, lo |-> 0, hi |-> n, cleaned |-> TRUE]
    IN  [b \in 1..TotalBatches(n) |->
            Reslice(whole, (b - 1) * RepoBatchSize, Min(b * RepoBatchSize, n))]

\* The record counts of the first file in the runs of main.
MainDocCounts == {1, RepoBatchSize + 1}

\* The runs of main: a missing path, one file, an empty directory, and a
\* directory of two files of which the second may be invalid JSON.
MainPaths == {Missing, FileA, RootDir}
MainTrees(p) ==
    IF p = FileA THEN {{FileA}}
    ELSE IF p = Missing THEN {{}}
    ELSE {{}, {FileA, FileB}}
MainChoices(p, present) ==
    IF p \notin present THEN {AbsentFile}
    ELSE IF p = FileA
    THEN {c \in [kind : {"docs"}, n : MainDocCounts, failAt : 0..MaxBatches] :
            c.failAt \in {0, TotalBatches(c.n)}}
    ELSE {[kind |-> "invalid", n |-> 0, failAt |-> 0],
          [kind |-> "docs", n |-> 1, failAt |-> 0]}

\* main up to line 57: the flags are parsed, the context is created with its
\* deadline and the signal handler is installed.
InitMain ==
    /\ m = MainImporter
    /\ path \in MainPaths
    /\ \E present \in MainTrees(path) :
       \E ca \in MainChoices(FileA, present), cb \in MainChoices(FileB, present) :
          LET c == (FileA :> ca) @@ (FileB :> cb) @@ (FileSubA :> AbsentFile)
          IN  /\ fs = [present |-> present,
                       content |-> [q \in JsonPaths |->
                                      [kind |-> c[q].kind, n |-> c[q].n]]]
              /\ storePlan = [q \in JsonPaths |-> c[q].failAt]
    /\ pc = "main"
    /\ jsonFiles = <<>>
    /\ spawned = 0
    /\ wg = 0
    /\ resultChan = [cap |-> 0, buf |-> <<>>, closed |-> FALSE]
    /\ results = <<>>
    /\ frame = [t \in Threads |-> IdleFrame]
    /\ \E again \in BOOLEAN :
          store = [c \in CollectionNames |->
                     IF again /\ c = FilePathToCollectionName(FileA)
                              /\ FileA \in fs.present
                     THEN PriorImport(FileA) ELSE <<>>]
    /\ log = [t \in Threads |-> <<>>]
    /\ ret = [type |-> "none", val |-> NilSlice, err |-> Nil]
    /\ probe = NoProbe
    /\ ctx = "live"
    /\ proc = [pc |-> "NewMongoRepository", repo |-> "none", out |-> <<>>,
               exit |-> -1]

\* What main leaves alone.
imports == <<fs, storePlan, m, path, jsonFiles, spawned, wg, resultChan,
             results, store, log, ret, probe>>

\* os.Exit: the process is gone, and its goroutines with it.
Killed == [t \in Threads |-> [frame[t] EXCEPT !.pc = "exited"]]

\* The context has a deadline, which may pass at any time.
Deadline ==
    /\ proc.pc \notin {"exited"}
    /\ ctx = "live"
    /\ ctx' = "DeadlineExceeded"
    /\ UNCHANGED <<proc, pc, frame, imports>>

\* NewMongoRepository fails (log.Fatalf), or it succeeds: Disconnect is
\* deferred, the importer is built and ImportPath is called.
Connect ==
    /\ proc.pc = "NewMongoRepository"
    /\ \/ /\ proc' = [proc EXCEPT !.pc = "exited", !.exit = 1,
                         !.out = Append(@, [line |-> "Failed to connect to MongoDB"])]
          /\ pc' = "exited"
       \/ /\ ctx = "live"
          /\ proc' = [proc EXCEPT !.pc = "ImportPath", !.repo = "connected",
                         !.out = Append(@, [line |-> "Starting import"])]
          /\ pc' = "ImportPath"
    /\ UNCHANGED <<ctx, frame, imports>>

\* ImportPath returned an error: log.Fatalf, which prints and calls
\* os.Exit(1), so that deferred calls do not run.
LogFatal ==
    /\ proc.pc = "ImportPath"
    /\ pc = "done"
    /\ ret.err # Nil
    /\ proc' = [proc EXCEPT !.pc = "exited", !.exit = 1,
                   !.out = Append(@, [line |-> "Error during import process",
                                      err |-> ret.err])]
    /\ pc' = "exited"
    /\ UNCHANGED <<ctx, frame, imports>>

\* The lines displayResults prints for a result.
ResultLine(res) ==
    IF res.Error = Nil
    THEN [line |-> "ok", FileName |-> res.FileName,
          CollectionName |-> res.CollectionName,
          InsertedCount |-> res.InsertedCount]
    ELSE [line |-> "failed", FileName |-> res.FileName, err |-> res.Error]

RECURSIVE SumInserted(_)
SumInserted(rs) ==
    IF Len(rs) = 0 THEN 0 ELSE Head(rs).InsertedCount + SumInserted(Tail(rs))

displayResults(result) ==
    IF result.type = "*ImportResult"
    THEN <<[line |-> "file", FileName |-> result.val.FileName,
            CollectionName |-> result.val.CollectionName,
            InsertedCount |-> result.val.InsertedCount,
            err |-> result.val.Error]>>
    ELSE IF result.type = "[]*ImportResult"
    THEN <<[line |-> "directory", files |-> Len(result.val)]>>
         \o [k \in 1..Len(result.val) |-> ResultLine(result.val[k])]
         \o <<[line |-> "total",
               documents |-> SumInserted(result.val),
               succeeded |-> Cardinality({k \in 1..Len(result.val) :
                                            result.val[k].Error = Nil}),
               failed |-> Cardinality({k \in 1..Len(result.val) :
                                         result.val[k].Error # Nil})]>>
    ELSE <<>>

\* ImportPath returned no error: the results are displayed.
DisplayResults ==
    /\ proc.pc = "ImportPath"
    /\ pc = "done"
    /\ ret.err = Nil
    /\ proc' = [proc EXCEPT !.pc = "deferred",
                   !.out = @ \o displayResults(ret)
                             \o <<[line |-> "Total processing time"]>>]
    /\ UNCHANGED <<ctx, pc, frame, imports>>

\* main returns: the deferred Disconnect runs, then the deferred cancel.
Deferred ==
    /\ proc.pc = "deferred"
    /\ proc' = [proc EXCEPT !.pc = "exited", !.exit = 0, !.repo = "disconnected"]
    /\ ctx' = IF ctx = "live" THEN "Canceled" ELSE ctx
    /\ pc' = "exited"
    /\ UNCHANGED <<frame, imports>>

\* The interrupt handler: a line is printed, the context is cancelled and
\* the process exits.
Interrupt ==
    /\ proc.pc \notin {"exited"}
    /\ proc' = [proc EXCEPT !.pc = "exited", !.exit = 1,
                   !.out = Append(@, [line |-> "Received interrupt signal"])]
    /\ ctx' = IF ctx = "live" THEN "Canceled" ELSE ctx
    /\ pc' = "exited"
    /\ frame' = Killed
    /\ UNCHANGED imports

NextMain ==
    \/ Connect
    \/ Deadline
    \/ Interrupt
    \/ ImportPath
    \/ ImportDirectory
    \/ Spawn
    \/ \E t \in Threads : ImportFileParse(t)
    \/ \E t \in Threads : CleanDocuments(t)
    \/ \E t \in Threads : InsertMany(t)
    \/ ImportFileReturn
    \/ \E t \in Threads : Send(t)
    \/ \E t \in Threads : WgDone(t)
    \/ Wait
    \/ Collect
    \/ LogFatal
    \/ DisplayResults
    \/ Deferred

MainSpec == InitMain /\ [][NextMain]_vars

(* ------------------------- shared vocabulary -------------------------- *)

\* The InsertMany calls a thread has made, in call order.
InsertCalls(t) == SelectSeq(log[t], LAMBDA c : c.op = "InsertMany")

\* ImportFile has returned in thread t.
Returned(t) == frame[t].pc \in {"return", "wgDone", "exit"}

\* The records ImportFile hands to processBatches for a file.
Submitted(p) == cleanDocuments(ParseJSONFile(p).docs)

\* How many records a file holds (0 when it does not parse).
RecordCount(p) == IF ParseError(p) # Nil THEN 0 ELSE fs.content[p].n

Parses(p) == ParseError(p) = Nil

RECURSIVE Concat(_)
Concat(ss) == IF Len(ss) = 0 THEN <<>> ELSE Head(ss) \o Concat(Tail(ss))

CeilDiv(n, b) == (n + b - 1) \div b

IsFailure(r) == r.Error # Nil

(* --------------------------------- C1 --------------------------------- *)

\* C1: importing N >= 1 records with an importer configured with batch size
\* B >= 1 issues exactly ceil(N/B) bulk-insert calls; the batches in call
\* order concatenate to the input, every batch but the last has B records
\* and the last has between 1 and B.
C1_BatchesFollowConfiguredSize ==
    \A t \in Threads :
        (/\ Returned(t)
         /\ ~IsFailure(frame[t].result)
         /\ RecordCount(frame[t].filePath) >= 1)
        => LET calls == InsertCalls(t)
               N == RecordCount(frame[t].filePath)
               B == m.batchSize
           IN  /\ Len(calls) = CeilDiv(N, B)
               /\ \A j \in 1..Len(calls) :
                     /\ j < Len(calls) => SliceLen(calls[j].docs) = B
                     /\ SliceLen(calls[j].docs) \in 1..B
               /\ Concat([j \in 1..Len(calls) |-> Elems(calls[j].docs)])
                     = Submitted(frame[t].filePath)

(* --------------------------------- C2 --------------------------------- *)

\* C2: when the j-th bulk-insert call of a file fails, the write stops at
\* once: call j is the last call made for the file, and the caller gets
\* inserted count 0 with a non-nil error, also when j > 1.
C2_FailFast ==
    \A t \in Threads :
        LET calls == InsertCalls(t)
        IN  \A j \in 1..Len(calls) :
                ~calls[j].ok
                => /\ j = Len(calls)
                   /\ Returned(t)
                   /\ frame[t].result.InsertedCount = 0
                   /\ frame[t].result.Error # Nil
                   /\ frame[t].err # Nil

\* A file whose second batch was rejected after the first was accepted.
C2_Witness ==
    \E t \in Threads :
        LET calls == InsertCalls(t)
        IN  /\ Len(calls) = 2
            /\ calls[1].ok
            /\ ~calls[2].ok
            /\ frame[t].pc = "exit"

(* --------------------------------- C3 --------------------------------- *)

\* The results ImportPath has handed back, as a sequence.
ReturnedResultSeq ==
    IF pc # "done" THEN <<>>
    ELSE IF ret.type = "*ImportResult" THEN <<ret.val>>
    ELSE ret.val

\* C3: in every result returned by ImportFile or contained in the collection
\* returned by ImportDirectory, a non-nil Error implies InsertedCount = 0.
C3_ErrorMeansZeroCount ==
    \A i \in 1..Len(ReturnedResultSeq) :
        IsFailure(ReturnedResultSeq[i]) => ReturnedResultSeq[i].InsertedCount = 0

\* A directory run has returned a result that failed in the store after the
\* store had accepted documents of the same file.
C3_Witness ==
    /\ pc = "done"
    /\ ret.type = "[]*ImportResult"
    /\ \E i \in 1..Len(ReturnedResultSeq) :
          /\ IsFailure(ReturnedResultSeq[i])
          /\ ReturnedResultSeq[i].Error.op = "error importing documents to collection"
          /\ TotalLen(store[ReturnedResultSeq[i].CollectionName]) > 0

(* --------------------------------- C4 --------------------------------- *)

\* The path was classified as a directory.
DirMode == LET c == IsDirectory(path) IN c.err = Nil /\ c.isDir

\* The path was classified as a file.
FileMode == LET c == IsDirectory(path) IN c.err = Nil /\ ~c.isDir

\* The files discovery yields for the path.
Discovered == FindJSONFiles(path).files

\* How many elements of a sequence satisfy a test.
Count(seq, Test(_)) == Cardinality({i \in 1..Len(seq) : Test(seq[i])})

\* C4: for a directory with n >= 1 discovered JSON files, under every
\* interleaving, ImportDirectory returns exactly n results, one per
\* discovered file: each file was imported by exactly one task, and the
\* results returned are exactly the results of those tasks.
C4_OneResultPerFile ==
    (pc = "done" /\ DirMode /\ Len(Discovered) >= 1)
    => LET n == Len(Discovered)
       IN  /\ Len(ret.val) = n
           /\ \A k \in 1..n :
                 /\ frame[k].filePath = Discovered[k]
                 /\ Count(ret.val, LAMBDA r : r.FileName = Base(Discovered[k]))
                       = Count(Discovered,
                               LAMBDA q : Base(q) = Base(Discovered[k]))
                 /\ Count(ret.val, LAMBDA r : r = frame[k].result)
                       = Cardinality({j \in 1..n :
                                        frame[j].result = frame[k].result})

\* A directory run over two files of different names has returned.
C4_Witness ==
    /\ pc = "done"
    /\ DirMode
    /\ Len(Discovered) = 2
    /\ Len(ret.val) = 2
    /\ Base(Discovered[1]) # Base(Discovered[2])

(* --------------------------------- C5 --------------------------------- *)

\* C5: over n >= 1 discovered files ImportDirectory returns a non-nil
\* aggregate error exactly when some returned result has a non-nil Error;
\* the error says "k out of n files failed to import" with k the number of
\* failed results and n the number of discovered files, and all n results
\* come back with it.
C5_AggregateError ==
    (pc = "done" /\ DirMode /\ Len(Discovered) >= 1)
    => LET k == Count(ret.val, IsFailure)
           n == Len(Discovered)
       IN  /\ (ret.err # Nil) <=> (k >= 1)
           /\ k >= 1 => /\ ret.err.op = "files failed to import"
                        /\ ret.err.failed = k
                        /\ ret.err.outOf = n
           /\ Len(ret.val) = n

\* A directory run with one failed and one successful file has returned.
C5_Witness ==
    /\ pc = "done"
    /\ DirMode
    /\ Len(ret.val) = 2
    /\ Count(ret.val, IsFailure) = 1
    /\ ret.err # Nil

(* --------------------------------- C6 --------------------------------- *)

\* The result of importing a file on its own: parse, then submit the batches
\* in order until the store rejects one.
Alone(p) ==
    LET r == NewResult(p)
        n == RecordCount(p)
    IN  IF ParseError(p) # Nil
        THEN [r EXCEPT !.Error = Err("error parsing file", p, ParseError(p))]
        ELSE IF n = 0 THEN [r EXCEPT !.Duration = 1]
        ELSE IF storePlan[p] \in 1..CeilDiv(n, RepoBatchSize)
        THEN [r EXCEPT !.Error =
                 Err("error importing documents to collection", r.CollectionName,
                     RepositoryError(r.CollectionName, storePlan[p],
                                     CeilDiv(n, RepoBatchSize), ErrStore))]
        ELSE [r EXCEPT !.InsertedCount = n, !.Duration = 1]

\* C6: in directory mode the result of every discovered file is the result
\* ImportFile gives for that file alone, whatever its siblings do and in
\* whatever order the tasks run; a single-file run gives that same result.
C6_SiblingsIndependent ==
    /\ (pc = "done" /\ FileMode) => ret.val = Alone(path)
    /\ DirMode =>
          LET found == Discovered
              alone == [k \in 1..Len(found) |-> Alone(found[k])]
          IN  /\ \A t \in 1..spawned :
                    Returned(t) => frame[t].result = alone[t]
              /\ (pc = "done" /\ Len(alone) >= 1) =>
                    \A k \in 1..Len(alone) :
                        Count(ret.val, LAMBDA r : r = alone[k])
                           = Count(alone, LAMBDA a : a = alone[k])

\* A directory run has returned in which one file failed in the store and a
\* sibling with the same collection was imported in full.
C6_Witness ==
    /\ pc = "done"
    /\ DirMode
    /\ \E i, j \in 1..Len(ret.val) :
          /\ IsFailure(ret.val[i])
          /\ ~IsFailure(ret.val[j])
          /\ ret.val[j].InsertedCount >= 1
          /\ ret.val[i].CollectionName = ret.val[j].CollectionName

(* --------------------------------- C7 --------------------------------- *)

\* ImportPath ended with an error and no result collection.
Fatal == pc = "done" /\ ret.err # Nil /\ ret.type # "*ImportResult" /\ Len(ret.val) = 0

ClassificationFailed == IsDirectory(path).err # Nil

DiscoveryFailed == DirMode /\ FindJSONFiles(path).err # Nil

\* No JSON file lies below the path.
NoJSONFiles == {q \in JsonPaths : IsPresent(q) /\ HasPrefix(q, path \o <<Slash>>)} = {}

\* Every failure of a file is recorded in a result of the collection.
FailuresRecorded ==
    /\ \A k \in 1..Len(Discovered) :
          ~Parses(Discovered[k])
          => \E i \in 1..Len(ret.val) :
                /\ ret.val[i].Error.op = "error parsing file"
                /\ ret.val[i].Error.arg = Discovered[k]
    /\ \A t \in 1..Len(Discovered) :
          (\E j \in 1..Len(InsertCalls(t)) : ~InsertCalls(t)[j].ok)
          => \E i \in 1..Len(ret.val) :
                /\ ret.val[i] = frame[t].result
                /\ ret.val[i].Error.op = "error importing documents to collection"

\* C7 as stated: an invocation on a directory ends fatally only when the
\* classification fails or when there are no JSON files; every other failure
\* is recorded in a per-file result and the collection is returned.
C7_FatalOnlyClassifyOrEmpty ==
    /\ Fatal => (ClassificationFailed \/ NoJSONFiles)
    /\ (pc = "done" /\ DirMode /\ ~NoJSONFiles)
          => (Len(ret.val) = Len(Discovered) /\ FailuresRecorded)

\* C7 amended: an invocation on a directory ends fatally only when the
\* classification fails, when file discovery itself fails, or when no JSON
\* file is discovered; every other failure is recorded in a per-file result
\* and the collection is returned.
C7_FatalOnlyClassifyDiscoverOrEmpty ==
    /\ Fatal => (ClassificationFailed \/ DiscoveryFailed \/ NoJSONFiles)
    /\ (pc = "done" /\ DirMode /\ ~DiscoveryFailed /\ ~NoJSONFiles)
          => (/\ Len(ret.val) = Len(Discovered)
              /\ Len(ret.val) >= 1
              /\ FailuresRecorded)

\* A directory holding a JSON file ended fatally because the walk failed.
C7_Witness ==
    /\ Fatal
    /\ DiscoveryFailed
    /\ ~NoJSONFiles

(* --------------------------------- C8 --------------------------------- *)

\* Nothing was launched and the store was never called.
NothingImported ==
    /\ spawned = 0
    /\ \A t \in Threads : frame[t].pc = "idle"
    /\ \A t \in Threads : \A j \in 1..Len(log[t]) :
          log[t][j].op \notin {"ParseJSONFile", "InsertMany"}
    /\ \A c \in CollectionNames : store[c] = <<>>

\* C8: when discovery finds no JSON file, or fails, ImportDirectory returns
\* a nil collection and a non-nil error, launches no task and never calls
\* the store.
C8_EmptyDirectoryIsAnError ==
    (pc = "done" /\ DirMode
        /\ (FindJSONFiles(path).err # Nil \/ Len(Discovered) = 0))
    => /\ ret.type = "[]*ImportResult"
       /\ Len(ret.val) = 0
       /\ ret.err # Nil
       /\ NothingImported

\* A run over a directory without JSON files, found readable, has returned.
C8_Witness ==
    /\ pc = "done"
    /\ DirMode
    /\ FindJSONFiles(path).err = Nil
    /\ Len(Discovered) = 0
    /\ ret.err.op = "no JSON files found in directory"

(* --------------------------------- C9 --------------------------------- *)

\* C9: ImportPath classifies first.  When the classification fails it
\* returns nil and an error and nothing was discovered, parsed or inserted;
\* for a directory it returns what ImportDirectory returns, a collection;
\* otherwise it returns what ImportFile returns, a single result.
C9_ClassifyThenDispatch ==
    /\ \A t \in Threads :
          Len(log[t]) >= 1 => /\ Len(log[0]) >= 1
                              /\ log[0][1] = [op |-> "IsDirectory", arg |-> path]
    /\ pc = "done" =>
          /\ ClassificationFailed =>
                /\ ret.type = "nil"
                /\ ret.err # Nil
                /\ log[0] = <<[op |-> "IsDirectory", arg |-> path]>>
                /\ NothingImported
          /\ DirMode =>
                /\ ret.type = "[]*ImportResult"
                /\ ret.val = results
                /\ Len(log[0]) = 2
                /\ log[0][2] = [op |-> "FindJSONFiles", arg |-> path]
                /\ frame[0].pc = "idle"
          /\ FileMode =>
                /\ ret.type = "*ImportResult"
                /\ ret.val = frame[0].result
                /\ ret.err = frame[0].err
                /\ frame[0].filePath = path
                /\ spawned = 0

\* A run on a path that cannot be examined has returned.
C9_Witness ==
    /\ pc = "done"
    /\ ClassificationFailed
    /\ ret.type = "nil"

(* --------------------------------- C10 -------------------------------- *)

\* name is the last element of the path p.
IsBaseNameOf(name, p) ==
    /\ Len(name) >= 1
    /\ \A i \in 1..Len(name) : name[i] # Slash
    /\ \/ p = name
       \/ HasSuffix(p, <<Slash>> \o name)

\* coll is name without its last extension.
IsNameWithoutExt(coll, name) ==
    \/ coll = name /\ \A i \in 1..Len(name) : name[i] # Dot
    \/ \E k \in 1..Len(name) :
          /\ name[k] = Dot
          /\ \A i \in (k + 1)..Len(name) : name[i] # Dot
          /\ coll = SubSeq(name, 1, k - 1)

\* C10: ImportFile returns a non-nil result on every path, whose FileName is
\* the base name of the path and whose CollectionName is derived from the
\* path; the returned error is nil exactly when the result's Error is nil,
\* and on a failure it is the very error stored in the result.
C10_ResultAlwaysReturned ==
    \A t \in Threads :
        Returned(t)
        => LET f == frame[t]
           IN  /\ f.result # NilResult
               /\ IsBaseNameOf(f.result.FileName, f.filePath)
               /\ IsNameWithoutExt(f.result.CollectionName, f.result.FileName)
               /\ (f.err = Nil) <=> (f.result.Error = Nil)
               /\ f.err # Nil => f.err = f.result.Error

\* A single-file run has returned a failure.
C10_Witness ==
    /\ pc = "done"
    /\ FileMode
    /\ ret.type = "*ImportResult"
    /\ ret.err # Nil
(* --------------------------------- C11 -------------------------------- *)

\* ParseJSON has been called on a content and has returned.
Parsed == probe.fn = "ParseJSON" /\ probe.out.done

AllObjects(elems) == \A i \in 1..Len(elems) : elems[i].j = "object"

\* rec is the record the JSON object obj denotes: its keys are the keys of
\* the members, each with the value of the last member of that key.
Denotes(obj, rec) ==
    /\ rec.t = "map"
    /\ DOMAIN rec.v = {obj.v[i].k : i \in 1..Len(obj.v)}
    /\ \A i \in 1..Len(obj.v) :
          (\A i2 \in (i + 1)..Len(obj.v) : obj.v[i2].k # obj.v[i].k)
          => rec.v[obj.v[i].k] = DecodeAny(obj.v[i].v)

\* C11: parsing a valid JSON array of N objects returns exactly those N
\* records in file order; parsing a single valid JSON object returns exactly
\* one record equal to it; the array decoding is attempted first and the
\* object decoding only if the array attempt failed.
C11_ParseReturnsTheRecords ==
    Parsed =>
        LET c == probe.in
            r == probe.out.v
        IN  /\ (c.j = "array" /\ AllObjects(c.v)) =>
                  /\ r.err = Nil
                  /\ Len(r.docs) = Len(c.v)
                  /\ \A i \in 1..Len(c.v) : Denotes(c.v[i], r.docs[i])
                  /\ r.unmarshals = <<"documents">>
            /\ c.j = "object" =>
                  /\ r.err = Nil
                  /\ Len(r.docs) = 1
                  /\ Denotes(c, r.docs[1])
            /\ r.unmarshals[1] = "documents"
            /\ Len(r.unmarshals) = 2 =>
                  /\ r.unmarshals[2] = "document"
                  /\ UnmarshalDocuments(c).err # Nil

\* An array of two different objects has been parsed.
C11_Witness ==
    /\ Parsed
    /\ probe.in.j = "array"
    /\ Len(probe.in.v) = 2
    /\ AllObjects(probe.in.v)
    /\ Len(probe.out.v.docs) = 2
    /\ probe.out.v.docs[1] # probe.out.v.docs[2]

(* --------------------------------- C12 -------------------------------- *)

\* C12: a content that is neither a valid JSON array of objects nor a valid
\* JSON object (malformed text, a top-level null, a scalar, an array with
\* elements that are no objects) makes parsing fail with an invalid-JSON-
\* format error and yields no records.
C12_OtherContentIsInvalid ==
    (/\ Parsed
     /\ ~(probe.in.j = "array" /\ AllObjects(probe.in.v))
     /\ probe.in.j # "object")
    => /\ probe.out.v.err # Nil
       /\ probe.out.v.err.op = "invalid JSON format in file"
       /\ Len(probe.out.v.docs) = 0

(* --------------------------------- C13 -------------------------------- *)

\* FilePathToCollectionName has been called on a path and has returned.
Named == probe.fn = "FilePathToCollectionName" /\ probe.out.done

\* C13: the collection name of a file path is the path's base name with only
\* its final extension removed, directories ignored: users.json gives users,
\* /data/order.items.json gives order.items, and metadata, a name without
\* extension, is returned unchanged.
C13_CollectionNameIsBaseWithoutExt ==
    Named =>
        LET p == probe.in
            coll == probe.out.v
        IN  /\ p = UsersJson => coll = <<"u", "s", "e", "r", "s">>
            /\ p = OrderItemsJson
                  => coll = <<"o", "r", "d", "e", "r", ".", "i", "t", "e", "m", "s">>
            /\ p = Metadata => coll = Metadata
            /\ (Len(p) >= 1 /\ p[Len(p)] # Slash) =>
                  \E k \in 1..Len(p) :
                      /\ IsBaseNameOf(SubSeq(p, k, Len(p)), p)
                      /\ IsNameWithoutExt(coll, SubSeq(p, k, Len(p)))

\* The name of a file with two dots below a directory has been derived.
C13_Witness ==
    /\ Named
    /\ probe.in = OrderItemsJson
    /\ probe.out.v = <<"o", "r", "d", "e", "r", ".", "i", "t", "e", "m", "s">>

(* --------------------------------- C14 -------------------------------- *)

\* cleanDocuments, of either source, has been called and has returned.
Cleaned == probe.fn \in {"cleanDocuments", "cleanDocumentsPart005"} /\ probe.out.done

\* C14: with identity removal disabled, which is what an importer has unless
\* the caller enables it, normalization is a no-op: every record comes out
\* unchanged (top-level _id and $date wrappers retained), in the order it
\* went in.
C14_DisabledIsNoOp ==
    /\ \A b \in {0, 100} :
          /\ ~NewMongoImporter(b).removeIDField
          /\ \A r \in BOOLEAN :
                NewMongoImporterWithOptions(b, r).removeIDField = r
    /\ (Cleaned /\ ~m.removeIDField) =>
          /\ Len(probe.out.v) = Len(probe.in)
          /\ \A i \in 1..Len(probe.in) : probe.out.v[i] = probe.in[i]

\* Two documents, the first with an _id and a $date wrapper, have gone
\* through cleanDocuments with removal disabled.
C14_Witness ==
    /\ Cleaned
    /\ ~m.removeIDField
    /\ Len(probe.in) = 2
    /\ probe.in[1] # probe.in[2]
    /\ "_id" \in DOMAIN probe.in[1]
    /\ "_id" \in DOMAIN probe.out.v[1]
    /\ probe.out.v[1]["at"] = Map("$date" :> Str(DateString))

(* --------------------------------- C15 -------------------------------- *)

RECURSIVE HoldsDate(_)
\* A value that date rewriting may touch: a timestamp string, a $date
\* wrapper, or a mapping holding one of these.
HoldsDate(value) ==
    \/ /\ value.t = "string"
       /\ value.v \in {DateString, DateNoMillis, DateOffset, DateOnly,
                        DateOutOfRange}
    \/ /\ value.t = "map"
       /\ \/ "$date" \in DOMAIN value.v
          \/ \E k \in DOMAIN value.v : HoldsDate(value.v[k])

\* C15: with identity removal enabled no output record has a top-level _id;
\* a record's other keys all stay (so a record without _id keeps all its
\* keys), and apart from date rewriting no value is changed; an _id inside a
\* sub-mapping is kept.
C15_OnlyTopLevelIdRemoved ==
    (Cleaned /\ m.removeIDField) =>
        /\ Len(probe.out.v) = Len(probe.in)
        /\ \A i \in 1..Len(probe.in) :
              LET d == probe.in[i]
                  c == probe.out.v[i]
              IN  /\ "_id" \notin DOMAIN c
                  /\ DOMAIN c = DOMAIN d \ {"_id"}
                  /\ \A k \in DOMAIN c :
                        /\ ~HoldsDate(d[k]) => c[k] = d[k]
                        /\ (d[k].t = "map" /\ "_id" \in DOMAIN d[k].v)
                              => (c[k].t = "map" /\ "_id" \in DOMAIN c[k].v)

\* A document with a top-level _id and an _id inside a sub-mapping has been
\* cleaned with removal enabled.
C15_Witness ==
    /\ Cleaned
    /\ m.removeIDField
    /\ Len(probe.in) = 1
    /\ DOMAIN probe.in[1] = {"_id", "name", "at"}
    /\ probe.in[1]["at"] = Map("_id" :> Num(1))
    /\ DOMAIN probe.out.v[1] = {"name", "at"}

(* --------------------------------- C16 -------------------------------- *)

\* The timestamp strings that can be parsed, and the others.
Parsable == {DateString, DateNoMillis, DateOffset, DateOnly}

\* value is a mapping whose $date is a string.
IsDateWrapper(value) ==
    /\ value.t = "map"
    /\ "$date" \in DOMAIN value.v
    /\ value.v["$date"].t = "string"

\* C16: with identity removal enabled, a mapping whose $date is a parsable
\* timestamp string is replaced by the temporal value of that instant, and
\* a mapping whose $date string cannot be parsed is left exactly as it was,
\* the other keys and records being processed all the same.
C16_DateWrapperBecomesTime ==
    (Cleaned /\ m.removeIDField) =>
        /\ Len(probe.out.v) = Len(probe.in)
        /\ \A i \in 1..Len(probe.in) :
              LET d == probe.in[i]
                  c == probe.out.v[i]
              IN  \A k \in DOMAIN d \ {"_id"} :
                     /\ k \in DOMAIN c
                     /\ IsDateWrapper(d[k]) =>
                           IF d[k].v["$date"].v \in Parsable
                           THEN c[k] = Time(Instant(d[k].v["$date"].v))
                           ELSE c[k] = d[k]

(* --------------------------------- C17 -------------------------------- *)

\* C17: cleanDocuments with removeIDField = true removes the top-level _id
\* of each document and returns every other field exactly as in the input;
\* a field whose value is a {"$date": "<timestamp>"} wrapper stays that
\* wrapper.
C17_DateWrappersPreserved ==
    (Cleaned /\ m.removeIDField) =>
        /\ Len(probe.out.v) = Len(probe.in)
        /\ \A i \in 1..Len(probe.in) :
              LET d == probe.in[i]
                  c == probe.out.v[i]
              IN  /\ DOMAIN c = DOMAIN d \ {"_id"}
                  /\ \A k \in DOMAIN c : c[k] = d[k]

(* --------------------------------- C18 -------------------------------- *)

\* C18: with an importer built the way main builds it, the _id field is
\* removed before the documents go to the store: no document is ever
\* submitted to InsertMany with a top-level _id.
C18_IdNeverSubmitted ==
    m = MainImporter =>
        \A t \in Threads :
            \A j \in 1..Len(InsertCalls(t)) :
                LET batch == Elems(InsertCalls(t)[j].docs)
                IN  \A i \in 1..Len(batch) : "_id" \notin DOMAIN batch[i]

(* --------------------------------- C19 -------------------------------- *)

\* C19: writing an empty sequence of records (a file that parses to no
\* record) returns inserted count 0 and no error and makes no bulk-insert
\* call, whatever the batch size; nothing of the file is in the store.
C19_EmptyWriteTouchesNothing ==
    \A t \in Threads :
        (/\ Returned(t)
         /\ Parses(frame[t].filePath)
         /\ RecordCount(frame[t].filePath) = 0)
        => /\ frame[t].result.InsertedCount = 0
           /\ frame[t].result.Error = Nil
           /\ frame[t].err = Nil
           /\ InsertCalls(t) = <<>>
           /\ \A c \in CollectionNames : \A k \in 1..Len(store[c]) :
                 store[c][k].file # frame[t].filePath

\* An importer with batch size 100 has imported a file holding an empty
\* array while a sibling file filled the same collection.
C19_Witness ==
    /\ pc = "done"
    /\ m.batchSize = 100
    /\ \E t \in Threads :
          /\ frame[t].pc = "exit"
          /\ Parses(frame[t].filePath)
          /\ RecordCount(frame[t].filePath) = 0
          /\ TotalLen(store[frame[t].result.CollectionName]) >= 1

(* --------------------------------- C20 -------------------------------- *)

RECURSIVE SumCounts(_)
\* The sum of the inserted counts of a sequence of results.
SumCounts(rs) ==
    IF Len(rs) = 0 THEN 0 ELSE Head(rs).InsertedCount + SumCounts(Tail(rs))

RECURSIVE StoredIn(_)
\* The number of documents in a set of collections.
StoredIn(cs) ==
    IF cs = {} THEN 0
    ELSE LET c == CHOOSE x \in cs : TRUE
         IN  TotalLen(store[c]) + StoredIn(cs \ {c})

\* What the store holds of a file, in insertion order.
StoredOf(p) ==
    SelectSeq(store[FilePathToCollectionName(p)], LAMBDA b : b.file = p)

\* C20: there is no rollback.  After the j-th batch of a file has failed the
\* store holds exactly batches 1..j-1 of that file, and the count reported
\* for the file is 0; so when the run is over the store holds at least as
\* many documents as the reported counts add up to, possibly more.
C20_NoRollback ==
    /\ \A t \in Threads :
          LET calls == InsertCalls(t)
              p == frame[t].filePath
          IN  \A j \in 1..Len(calls) :
                  ~calls[j].ok
                  => /\ Len(StoredOf(p)) = j - 1
                     /\ \A k \in 1..(j - 1) :
                           /\ StoredOf(p)[k] = calls[k].docs
                           /\ StoredOf(p)[k].lo = (k - 1) * RepoBatchSize
                           /\ StoredOf(p)[k].hi = k * RepoBatchSize
                           /\ calls[k].ok
                     /\ Returned(t) /\ frame[t].result.InsertedCount = 0
    /\ pc = "done" => StoredIn(CollectionNames) >= SumCounts(ReturnedResultSeq)

\* A run is over in which the second batch of a file failed: the first
\* batch is in the store, the file is reported with count 0, and the store
\* holds more than the reported counts add up to.
C20_Witness ==
    /\ pc = "done"
    /\ \E t \in Threads :
          /\ Len(InsertCalls(t)) = 2
          /\ ~InsertCalls(t)[2].ok
          /\ TotalLen(StoredOf(frame[t].filePath)) = RepoBatchSize
          /\ frame[t].result.InsertedCount = 0
    /\ StoredIn(CollectionNames) > SumCounts(ReturnedResultSeq)

(* --------------------------------- C21 -------------------------------- *)

IsPrefix(a, b) == Len(a) <= Len(b) /\ SubSeq(b, 1, Len(a)) = a

\* The process ended by returning from main.
Completed == proc.pc = "exited" /\ proc.exit = 0

\* C21: imports are insert-only.  No step of an import removes or modifies
\* what a collection already holds: every collection only grows at its end,
\* so importing a file whose collection already holds an earlier import of
\* the same file leaves both copies.
C21_InsertOnly ==
    [][\A c \in CollectionNames : IsPrefix(store[c], store'[c])]_vars

\* The file was imported before, has been imported again without failure, and
\* the collection holds the earlier copy followed by the new one.
C21_Witness ==
    LET c == FilePathToCollectionName(FileA)
        prior == PriorImport(FileA)
    IN  /\ Completed
        /\ path = FileA
        /\ ret.val.InsertedCount = RepoBatchSize + 1
        /\ store[c] = prior \o prior
        /\ Len(prior) = 2

(* --------------------------------- C22 -------------------------------- *)

\* The lines the process has printed.
Printed == {proc.out[k] : k \in 1..Len(proc.out)}

\* The process has ended, and not by the interrupt handler.
EndedUninterrupted ==
    /\ proc.pc = "exited"
    /\ [line |-> "Received interrupt signal"] \notin Printed

\* ImportDirectory returned results of which some failed and some did not.
MixedOutcomes ==
    /\ ret.type = "[]*ImportResult"
    /\ \E k \in 1..Len(ret.val) : ret.val[k].Error # Nil
    /\ \E k \in 1..Len(ret.val) : ret.val[k].Error = Nil

\* C22: when a directory run ends with mixed outcomes the aggregate failure
\* is not fatal to the process: before it ends, the program has reported the
\* individual outcome of every file.
C22_MixedOutcomesReported ==
    (EndedUninterrupted /\ MixedOutcomes)
        => \A k \in 1..Len(ret.val) : ResultLine(ret.val[k]) \in Printed

(* --------------------------------- C23 -------------------------------- *)

\* The file a thread imports.
FileOf(t) == IF t = 0 THEN path ELSE jsonFiles[t]

\* The result is that of a file whose import failed in the store layer on
\* the context's error.
FailedOnContext(r) ==
    /\ r.Error.op = "error importing documents to collection"
    /\ r.Error.cause.op = "RepositoryError"
    /\ r.Error.cause.cause \in {ErrDeadlineExceeded, ErrCanceled}
    /\ r.InsertedCount = 0

\* The thread made a bulk-insert call after the context was done.
CalledAfterDone(t) ==
    \E j \in 1..Len(InsertCalls(t)) : InsertCalls(t)[j].ctx # "live"

\* C23: once the context is cancelled or its deadline has passed, every
\* later bulk-insert call fails with a store-layer error that is handled
\* like any other batch failure: it is the last call for its file, the
\* file's result carries a non-nil error and count 0, and a directory import
\* still returns one result for every discovered file.
C23_ContextDoneFailsEveryInsert ==
    /\ \A t \in Threads :
          LET calls == InsertCalls(t)
          IN  \A j \in 1..Len(calls) :
                 calls[j].ctx # "live" =>
                    /\ ~calls[j].ok
                    /\ j = Len(calls)
                    /\ frame[t].result.FileName = Base(FileOf(t))
                    /\ FailedOnContext(frame[t].result)
    /\ (pc = "done" /\ ret.type = "[]*ImportResult" /\ jsonFiles # <<>>) =>
          /\ Len(ret.val) = Len(jsonFiles)
          /\ \A t \in 1..Len(jsonFiles) :
                CalledAfterDone(t) =>
                   \E k \in 1..Len(ret.val) : ret.val[k] = frame[t].result

\* The deadline passed between the two bulk-insert calls of a file: the
\* first was accepted, the second failed, and the directory import returned
\* a result for each of its two files.
C23_Witness ==
    /\ pc = "done"
    /\ Len(jsonFiles) = 2
    /\ Len(ret.val) = 2
    /\ \E t \in 1..2 :
          /\ Len(InsertCalls(t)) = 2
          /\ InsertCalls(t)[1].ok
          /\ InsertCalls(t)[2].ctx = "DeadlineExceeded"
          /\ FailedOnContext(frame[t].result)
          /\ TotalLen(store[frame[t].result.CollectionName]) >= RepoBatchSize

(* --------------------------------- C24 -------------------------------- *)

\* C24: within one file the batches are submitted strictly one after
\* another, in input order: batch j+1 is submitted only after batch j was
\* accepted, and the next batch a task will submit is the one after its
\* last call.  A file is imported by one task, which makes one call at a
\* time, so at most one bulk-insert call per file is in flight; calls of
\* different files may interleave.
C24_BatchesOneAfterAnother ==
    /\ \A t \in Threads :
          LET calls == InsertCalls(t)
          IN  /\ \A j \in 1..Len(calls) :
                    /\ calls[j].docs.file = FileOf(t)
                    /\ calls[j].docs.lo = (j - 1) * RepoBatchSize
                    /\ calls[j].docs.hi =
                          Min(j * RepoBatchSize, RecordCount(FileOf(t)))
                    /\ j < Len(calls) => calls[j].ok
              /\ frame[t].pc = "InsertMany" =>
                    /\ frame[t].i = Len(calls) * RepoBatchSize
                    /\ \A j \in 1..Len(calls) : calls[j].ok
    /\ \A t, u \in 1..spawned : t # u => jsonFiles[t] # jsonFiles[u]
    /\ \A t \in 0..spawned : frame[t].pc # "idle" => frame[t].filePath = FileOf(t)

\* Two tasks write to the same collection, and a call of the second file
\* came between the two calls of the first.
C24_Witness ==
    LET stored == store[FilePathToCollectionName(FileA)]
    IN  /\ Len(stored) = 3
        /\ stored[1].file = FileA /\ stored[1].hi = RepoBatchSize
        /\ stored[2].file = FileSubA
        /\ stored[3].file = FileA /\ stored[3].lo = RepoBatchSize

(* --------------------------------- C25 -------------------------------- *)

\* The entries below the root that are files named *.json in any case.
JSONFilesBelow(root) ==
    {AllEntries[i].path : i \in
        {k \in 1..Len(AllEntries) :
            /\ IsPresent(AllEntries[k].path)
            /\ ~AllEntries[k].isDir
            /\ HasPrefix(AllEntries[k].path, root \o <<Slash>>)
            /\ HasSuffix(ToLower(AllEntries[k].path), DotJson)}}

\* ImportDirectory has just received the outcome of a discovery that went
\* through: it is about to launch the first task, or it has returned the
\* error for an empty discovery.
JustDiscovered ==
    /\ spawned = 0
    /\ \/ pc = "spawn"
       \/ pc = "done" /\ ret.err.op = "no JSON files found in directory"

\* C25: file discovery under a root returns exactly the non-directory
\* entries, at any depth, whose extension is .json in any case; entries
\* with other extensions and directories, even ones named *.json, are left
\* out, and each matching file appears once.
C25_DiscoveryFindsJSONFiles ==
    JustDiscovered =>
        /\ {jsonFiles[k] : k \in 1..Len(jsonFiles)} = JSONFilesBelow(path)
        /\ Len(jsonFiles) = Cardinality(JSONFilesBelow(path))

\* Discovery found the file with the upper-case extension and the file in
\* the subdirectory, next to a .txt file and a directory named e.json.
C25_Witness ==
    /\ pc = "spawn"
    /\ spawned = 0
    /\ jsonFiles = <<FileB, FileSubA>>
    /\ IsPresent(FileTxt)
    /\ IsPresent(DirJson)

(* --------------------------------- C26 -------------------------------- *)

\* The thread has called ParseJSONFile.
HasParsed(t) == \E k \in 1..Len(log[t]) : log[t][k].op = "ParseJSONFile"

\* C26: when parsing fails (unreadable file or invalid JSON) ImportFile
\* returns at once with the parse error: it never goes on to cleaning and
\* the repository, no bulk insert is issued for the file, and the store
\* holds nothing of the file.
C26_ParseFailureSkipsRepository ==
    \A t \in Threads :
        (HasParsed(t) /\ ~Parses(frame[t].filePath)) =>
            /\ Returned(t)
            /\ frame[t].result.Error.op = "error parsing file"
            /\ log[t][Len(log[t])] =
                  [op |-> "ParseJSONFile", arg |-> frame[t].filePath]
            /\ InsertCalls(t) = <<>>
            /\ \A c \in CollectionNames :
                  \A k \in 1..Len(store[c]) : store[c][k].file # frame[t].filePath

\* A file of invalid JSON has been imported next to a file that went into
\* the store: the store holds the sibling's records and nothing else.
C26_Witness ==
    /\ pc = "done"
    /\ \E t, u \in 1..spawned :
          /\ fs.content[frame[t].filePath].kind = "invalid"
          /\ frame[t].result.Error.op = "error parsing file"
          /\ frame[u].result.InsertedCount = 1
          /\ StoredIn(CollectionNames) = 1

(* --------------------------------- C27 -------------------------------- *)

\* What the claim compares of a result.
Outcome(r) == <<r.FileName, r.CollectionName, r.InsertedCount, r.Error # Nil>>

\* The outcomes of the schedule that runs the tasks one after another in
\* discovery order, and the error ImportDirectory returns with them.
SequentialOutcomes == [k \in 1..Len(jsonFiles) |-> Outcome(Alone(jsonFiles[k]))]
SequentialError ==
    LET failed == Count(SequentialOutcomes, LAMBDA o : o[4])
    IN  IF failed = 0 THEN Nil
        ELSE [op |-> "files failed to import", failed |-> failed,
              outOf |-> Len(jsonFiles)]

\* C27: with deterministic collaborators the outcome of a directory import
\* does not depend on the interleaving of its tasks: under every schedule
\* the multiset of results (file name, collection name, inserted count,
\* failed or not) and the aggregate error are those of the sequential
\* schedule; only the order of the results may differ.
C27_OutcomeIndependentOfSchedule ==
    (pc = "done" /\ jsonFiles # <<>>) =>
        LET got == [k \in 1..Len(ret.val) |-> Outcome(ret.val[k])]
            seq == SequentialOutcomes
        IN  /\ Len(got) = Len(seq)
            /\ \A k \in 1..Len(seq) :
                  Count(got, LAMBDA o : o = seq[k]) = Count(seq, LAMBDA o : o = seq[k])
            /\ ret.err = SequentialError

\* A run returned its two results in the order opposite to discovery, one
\* failed and one not, both aimed at the same collection.
C27_Witness ==
    /\ pc = "done"
    /\ Len(jsonFiles) = 2
    /\ Len(ret.val) = 2
    /\ Outcome(ret.val[1]) = Outcome(Alone(jsonFiles[2]))
    /\ Outcome(ret.val[1]) # Outcome(Alone(jsonFiles[1]))
    /\ ret.val[1].CollectionName = ret.val[2].CollectionName
    /\ ret.val[1].InsertedCount + ret.val[2].InsertedCount >= 1
    /\ ret.err # Nil

(* --------------------------------- C28 -------------------------------- *)

\* The tasks that have sent their result.
Sent == {t \in 1..spawned : frame[t].pc \in {"wgDone", "exit"}}

\* The channel has room for every task, each task sends once, a task ready
\* to send can do so, and the channel is closed only after every send.
ChannelNeverBlocks ==
    /\ pc \in {"spawn", "wait", "collect"} =>
          /\ resultChan.cap = Len(jsonFiles)
          /\ spawned <= resultChan.cap
          /\ Len(resultChan.buf) = Cardinality(Sent)
          /\ wg = Cardinality({t \in 1..spawned : frame[t].pc # "exit"})
    /\ \A t \in 1..spawned :
          frame[t].pc = "return" =>
             /\ ~resultChan.closed
             /\ Len(resultChan.buf) < resultChan.cap
    /\ resultChan.closed =>
          /\ spawned = Len(jsonFiles)
          /\ \A t \in 1..spawned : frame[t].pc = "exit"
    /\ (pc = "wait" /\ \A t \in 1..spawned : frame[t].pc = "exit") => wg = 0

\* Every task was launched and has returned from ImportFile.
EveryImportTerminated ==
    /\ pc = "wait"
    /\ \A t \in 1..Len(jsonFiles) : Returned(t)

\* C28: ImportDirectory cannot deadlock.  The channel's capacity is the
\* number of launched tasks and each task sends exactly once, so no task
\* blocks on its send; the channel is closed only after every send; and the
\* call returns whenever every per-file import has terminated.
C28_NoDeadlock ==
    /\ []ChannelNeverBlocks
    /\ EveryImportTerminated ~> (pc = "done")

\* All tasks of a directory run have sent before any result was received:
\* the channel is full, and the call has returned.
C28_Witness ==
    /\ pc = "done"
    /\ resultChan.closed
    /\ resultChan.cap = MaxFiles
    /\ Len(ret.val) = MaxFiles
    /\ \A t \in 1..MaxFiles : frame[t].pc = "exit"

(* --------------------------------- C29 -------------------------------- *)

\* The task that imports a discovered file.
TaskOf(p) == CHOOSE t \in 1..Len(jsonFiles) : jsonFiles[t] = p

\* The records the store holds of a file, in insertion order.
RecordsStoredOf(p) ==
    LET batches == StoredOf(p)
    IN  Concat([k \in 1..Len(batches) |-> Elems(batches[k])])

\* Both files named a.json were discovered and imported without failure.
BothImported ==
    /\ pc = "done"
    /\ \E t \in 1..Len(jsonFiles) : jsonFiles[t] = FileA
    /\ \E t \in 1..Len(jsonFiles) : jsonFiles[t] = FileSubA
    /\ frame[TaskOf(FileA)].result.Error = Nil
    /\ frame[TaskOf(FileSubA)].result.Error = Nil

\* C29: two discovered files in different subdirectories with the same base
\* name are imported into the same collection by concurrent tasks; each gets
\* its own result, and after both have succeeded the collection holds all
\* the records of both files, whatever the interleaving.
C29_SameNameSameCollection ==
    BothImported =>
        LET c == FilePathToCollectionName(FileA)
            ra == frame[TaskOf(FileA)].result
            rs == frame[TaskOf(FileSubA)].result
        IN  /\ FilePathToCollectionName(FileSubA) = c
            /\ TaskOf(FileA) # TaskOf(FileSubA)
            /\ ra.CollectionName = c /\ rs.CollectionName = c
            /\ ra.FileName = rs.FileName
            /\ ra.InsertedCount = RecordCount(FileA)
            /\ rs.InsertedCount = RecordCount(FileSubA)
            /\ Count(ret.val, LAMBDA r : r.CollectionName = c) = 2
            /\ \E i, j \in 1..Len(ret.val) :
                  i # j /\ ret.val[i] = ra /\ ret.val[j] = rs
            /\ RecordsStoredOf(FileA) = Submitted(FileA)
            /\ RecordsStoredOf(FileSubA) = Submitted(FileSubA)
            /\ TotalLen(store[c]) = RecordCount(FileA) + RecordCount(FileSubA)

\* Both files were imported, the larger in two batches with the batch of the
\* other file stored between them.
C29_Witness ==
    /\ BothImported
    /\ LET stored == store[FilePathToCollectionName(FileA)]
       IN  /\ Len(stored) = 3
           /\ stored[2].file = FileSubA
           /\ TotalLen(stored) = RepoBatchSize + 2
    /\ Len(ret.val) = 2
    /\ ret.err = Nil

(* --------------------------------- C30 -------------------------------- *)

\* C30: once the connection to the store is established, every way the
\* program can end (normal completion, an error returned by the import, an
\* interrupt signal) is preceded by a Disconnect call.
C30_DisconnectBeforeEnd ==
    (proc.pc = "exited" /\ proc.repo # "none") => proc.repo = "disconnected"

====
